---------------------------- MODULE Spec2Model ----------------------------
(***************************************************************************)
(* Value types of the RTPS layer: the split sequence counter               *)
(* (common/sequence_number.rs, core/sequence_number.rs) and the range-set  *)
(* codec (common/sequence_number.rs, core/fragment_number.rs).             *)
(*                                                                         *)
(* TLC's integers are 32 bits wide, so the 32-bit halves of the source     *)
(* (i32 high, u32 low, u32 fragment number) are modelled at width HalfBits *)
(* and the i64 of into_inner at width 2 * HalfBits.  Every overflow,       *)
(* carry, borrow and truncation is kept, at the modelled width.  A bitmap  *)
(* word keeps its 32 bits: it is the set of its set bit positions.         *)
(*                                                                         *)
(* The operations are pure; a behaviour is one call (pc "idle" to          *)
(* "returned"), optionally followed by a second call on its result.        *)
(* overflow_checks is the build: TRUE when arithmetic and shift overflow   *)
(* panic (debug), FALSE when they wrap (release).                          *)
(***************************************************************************)
EXTENDS Integers, Sequences, FiniteSets, TLC

VARIABLES pc, op, args, ret, prev, overflow_checks

vars == <<pc, op, args, ret, prev, overflow_checks>>

\* ------------------------------------------------------------------ widths

\* modelled width of i32 and u32
HalfBits == 10

\* how far the sampled inputs reach from each edge of a range
Edge == 2

LowMod == 2 ^ HalfBits
MaxI32 == 2 ^ (HalfBits - 1) - 1
MinI32 == -(2 ^ (HalfBits - 1))
WideBits == 2 * HalfBits
WideMod == 2 ^ WideBits
MaxI64 == 2 ^ (WideBits - 1) - 1
MinI64 == -(2 ^ (WideBits - 1))

InI32(x) == MinI32 <= x /\ x <= MaxI32

\* two's-complement reading of x at the i64 width
WrapI64(x) == ((x - MinI64) % WideMod) + MinI64

\* ------------------------------------------------------------------ outcomes

None == [tag |-> "None"]
Some(x) == [tag |-> "Some", val |-> x]
Panic == [tag |-> "panic"]
Val(x) == [tag |-> "value", val |-> x]
Null == [tag |-> "null"]

\* -------------------------------------------------------- SequenceNumber

SequenceNumber == [high : MinI32..MaxI32, low : 0..(LowMod - 1)]

new(h, l) == [high |-> h, low |-> l]

unknown == new(-1, 0)

zero == new(0, 0)

\* derived Ord: the fields in declaration order
SNLess(a, b) == a.high < b.high \/ (a.high = b.high /\ a.low < b.low)

\* i32::checked_add, i32::checked_sub
i32_checked_add(x, y) == IF InI32(x + y) THEN Some(x + y) ELSE None

i32_checked_sub(x, y) == IF InI32(x - y) THEN Some(x - y) ELSE None

\* o.and_then(|h| h.checked_add(c))
and_then_add(o, c) == IF o.tag = "Some" THEN i32_checked_add(o.val, c) ELSE None

\* o.and_then(|h| h.checked_sub(c))
and_then_sub(o, c) == IF o.tag = "Some" THEN i32_checked_sub(o.val, c) ELSE None

\* u32::overflowing_add, u32::overflowing_sub
overflowing_add(x, y) == <<(x + y) % LowMod, x + y >= LowMod>>

overflowing_sub(x, y) == <<(x - y) % LowMod, x < y>>

\* checked_add with the rhs sentinel test left out
checked_add_lhs_only(self, rhs) ==
    IF self = unknown THEN None
    ELSE LET lo == overflowing_add(self.low, rhs.low)
             hi == and_then_add(i32_checked_add(self.high, rhs.high),
                                IF lo[2] THEN 1 ELSE 0)
         IN  IF hi.tag = "Some" THEN Some(new(hi.val, lo[1])) ELSE None

checked_add(self, rhs) ==
    IF self = unknown \/ rhs = unknown THEN None
    ELSE LET lo == overflowing_add(self.low, rhs.low)
             hi == and_then_add(i32_checked_add(self.high, rhs.high),
                                IF lo[2] THEN 1 ELSE 0)
         IN  IF hi.tag = "Some" THEN Some(new(hi.val, lo[1])) ELSE None

\* checked_sub with the borrow left out of the high half
checked_sub_no_borrow(self, rhs) ==
    IF self = unknown \/ rhs = unknown THEN None
    ELSE LET lo == overflowing_sub(self.low, rhs.low)
             hi == i32_checked_sub(self.high, rhs.high)
         IN  IF hi.tag = "Some"
             THEN IF hi.val < 0 THEN None ELSE Some(new(hi.val, lo[1]))
             ELSE None

checked_sub(self, rhs) ==
    IF self = unknown \/ rhs = unknown THEN None
    ELSE LET lo == overflowing_sub(self.low, rhs.low)
             hi == and_then_sub(i32_checked_sub(self.high, rhs.high),
                                IF lo[2] THEN 1 ELSE 0)
         IN  IF hi.tag = "Some"
             THEN IF hi.val < 0 THEN None ELSE Some(new(hi.val, lo[1]))
             ELSE None

\* Option::expect, and before it an unwrap that yields zero instead of aborting
unwrap_or_zero(o) == IF o.tag = "Some" THEN Val(o.val) ELSE Val(zero)

expect(o) == IF o.tag = "Some" THEN Val(o.val) ELSE Panic

\* impl Sub for SequenceNumber
sub(self, rhs) == expect(checked_sub(self, rhs))

\* impl Add for SequenceNumber
add(self, rhs) == expect(checked_add(self, rhs))

\* impl From<i64> for SequenceNumber: v >> 32 is an arithmetic shift
from_i64(v) == new(v \div LowMod, v % LowMod)

\* impl Into<i64> for SequenceNumber (common)
common_into(self) == self.high * LowMod + self.low

RECURSIVE Shl(_, _)
\* x << n at the i64 width, the bits shifted out dropped
Shl(x, n) == IF n = 0 THEN WrapI64(x) ELSE Shl(WrapI64(2 * x), n - 1)

\* impl Into<i64> for SequenceNumber (core): + binds tighter than <<, so the
\* shift amount is 32 + low
core_into(self, checks) ==
    LET amount == HalfBits + self.low
    IN  IF amount >= WideBits
        THEN IF checks THEN Panic ELSE Val(Shl(self.high, amount % WideBits))
        ELSE Val(Shl(self.high, amount))

\* SequenceNumber::into_inner (common)
into_inner(self) == common_into(self)

\* ---------------------------------------------------------- range-set codec

\* most elements a set is built from
MaxLength == 256

\* widest span (last - first) of a set
MaxRange == 255

\* bits of a bitmap word, and the advance of the word base
WordBits == 32

\* largest offset within a word
MaxShift == 31

\* the fixed-capacity shapes: SequenceNumberSet1 .. SequenceNumberSet8
MaxWords == 8

Err(kind) == [tag |-> "Err", kind |-> kind]
InvalidLength(n) == [tag |-> "Err", kind |-> "InvalidLength", len |-> n]
Ok(base, num_bits, bitmaps) ==
    [tag |-> "Ok", base |-> base, num_bits |-> num_bits, bitmaps |-> bitmaps]

InI64(x) == MinI64 <= x /\ x <= MaxI64
InU32(x) == 0 <= x /\ x < LowMod
WrapU32(x) == x % LowMod

\* the length test with the upper limit off by one
invalid_length_255(n) == n < 1 \/ n > MaxRange

\* v.len() < 1 || v.len() > 256
invalid_length(n) == n < 1 \/ n > MaxLength

\* bitmap | (1u32 << shift): a shift of 32 or more panics under overflow
\* checks and is masked to its low five bits without them
shl_or(bitmap, shift, checks) ==
    IF 0 <= shift /\ shift <= MaxShift THEN Val(bitmap \cup {shift})
    ELSE IF checks THEN Panic
    ELSE Val(bitmap \cup {shift % WordBits})

\* bitmaps.as_slice().try_into().unwrap() into the shape of range / 32 + 1 words
into_shape(base, range, bitmaps) ==
    LET n == range \div WordBits + 1
    IN  IF n < 1 \/ n > MaxWords THEN Panic
        ELSE IF Len(bitmaps) # n THEN Panic
        ELSE Ok(base, range + 1, bitmaps)

\* v.sort_unstable() left out
sn_sort_none(v) == v

\* v.sort_unstable() on Vec<SequenceNumber>
sn_sort(v) == SortSeq(v, SNLess)

\* one step of the fold over the sorted SequenceNumbers, on i64
sn_fold_step(acc, n, checks) ==
    LET diff == n - acc.base
        push == WrapI64(diff) > MaxShift
        base == IF push THEN acc.base + WordBits ELSE acc.base
        words == IF push THEN Append(acc.words, acc.map) ELSE acc.words
        bitmap == IF push THEN {} ELSE acc.map
        shift == n - WrapI64(base)
        map == shl_or(bitmap, WrapI64(shift), checks)
    IN  IF checks /\ ~(InI64(diff) /\ InI64(base) /\ InI64(shift)) THEN Panic
        ELSE IF map = Panic THEN Panic
        ELSE [words |-> words, base |-> WrapI64(base), map |-> map.val]

RECURSIVE sn_fold(_, _, _, _, _)
\* v.iter().skip(1).fold((vec![], first, 1u32), ...), over the elements
\* lo..hi in order, the range halved to keep the evaluation shallow
sn_fold(v, lo, hi, acc, checks) ==
    IF acc = Panic \/ lo > hi THEN acc
    ELSE IF lo = hi THEN sn_fold_step(acc, into_inner(v[lo]), checks)
    ELSE LET mid == (lo + hi) \div 2
         IN  sn_fold(v, mid + 1, hi, sn_fold(v, lo, mid, acc, checks), checks)

\* impl TryFrom<Vec<SequenceNumber>> for Box<SequenceNumberSet>
sn_try_from(input, checks) ==
    IF invalid_length(Len(input)) THEN InvalidLength(Len(input))
    ELSE LET v == sn_sort(input)
             first == v[1]
             last == v[Len(v)]
             d == sub(last, first)
         IN  IF d = Panic THEN Panic
             ELSE LET range == into_inner(d.val)
                  IN  IF range > MaxRange THEN Err("InvalidRange")
                      ELSE IF into_inner(first) < 1 THEN Err("InvalidValue")
                      ELSE LET acc == sn_fold(v, 2, Len(v),
                                        [words |-> <<>>,
                                         base |-> into_inner(first),
                                         map |-> {0}], checks)
                           IN  IF acc = Panic THEN Panic
                               ELSE into_shape(first, range,
                                               Append(acc.words, acc.map))

\* v.sort_unstable() left out
frag_sort_none(v) == v

\* v.sort_unstable() on Vec<FragmentNumber>
frag_sort(v) == SortSeq(v, <)

\* one step of the fold over the sorted FragmentNumbers, on u32
frag_fold_step(acc, n, checks) ==
    LET diff == n - acc.base
        push == WrapU32(diff) > MaxShift
        base == IF push THEN acc.base + WordBits ELSE acc.base
        words == IF push THEN Append(acc.words, acc.map) ELSE acc.words
        bitmap == IF push THEN {} ELSE acc.map
        shift == n - WrapU32(base)
        map == shl_or(bitmap, WrapU32(shift), checks)
    IN  IF checks /\ ~(InU32(diff) /\ InU32(base) /\ InU32(shift)) THEN Panic
        ELSE IF map = Panic THEN Panic
        ELSE [words |-> words, base |-> WrapU32(base), map |-> map.val]

RECURSIVE frag_fold(_, _, _, _, _)
\* v.iter().skip(1).fold((vec![], first, 1u32), ...), over the elements
\* lo..hi in order, the range halved to keep the evaluation shallow
frag_fold(v, lo, hi, acc, checks) ==
    IF acc = Panic \/ lo > hi THEN acc
    ELSE IF lo = hi THEN frag_fold_step(acc, v[lo], checks)
    ELSE LET mid == (lo + hi) \div 2
         IN  frag_fold(v, mid + 1, hi, frag_fold(v, lo, mid, acc, checks), checks)

\* impl TryFrom<Vec<FragmentNumber>> for Box<FragmentNumberSet>
frag_try_from(input, checks) ==
    IF invalid_length(Len(input)) THEN InvalidLength(Len(input))
    ELSE LET v == frag_sort(input)
             first == v[1]
             last == v[Len(v)]
             d == last - first
         IN  IF checks /\ ~InU32(d) THEN Panic
             ELSE LET range == WrapU32(d)
                  IN  IF range > MaxRange THEN Err("InvalidRange")
                      ELSE IF first < 1 THEN Err("InvalidValue")
                      ELSE LET acc == frag_fold(v, 2, Len(v),
                                        [words |-> <<>>,
                                         base |-> first,
                                         map |-> {0}], checks)
                           IN  IF acc = Panic THEN Panic
                               ELSE into_shape(first, range,
                                               Append(acc.words, acc.map))

\* ------------------------------------------------------------------ Time

time_new(s, f) == [seconds |-> s, fraction |-> f]

is_valid(self) == self.seconds >= 0

time_infinite == time_new(MaxI32, LowMod - 1)

time_invalid == time_new(-1, LowMod - 1)

time_zero == time_new(0, 0)

\* the u64 of the intermediate steps, at the modelled width
InU64(x) == 0 <= x /\ x < WideMod

WrapU64(x) == x % WideMod

\* Time::checked_add with the fraction carry dropped
time_checked_add_no_carry(self, rhs) ==
    IF ~is_valid(self) \/ ~is_valid(rhs) THEN None
    ELSE LET fr == overflowing_add(self.fraction, rhs.fraction)
             se == i32_checked_add(self.seconds, rhs.seconds)
         IN  IF se.tag = "Some" THEN Some(time_new(se.val, fr[1])) ELSE None

time_checked_add(self, rhs) ==
    IF ~is_valid(self) \/ ~is_valid(rhs) THEN None
    ELSE LET fr == overflowing_add(self.fraction, rhs.fraction)
             se == and_then_add(i32_checked_add(self.seconds, rhs.seconds),
                                IF fr[2] THEN 1 ELSE 0)
         IN  IF se.tag = "Some" THEN Some(time_new(se.val, fr[1])) ELSE None

\* Time::checked_sub with the fraction borrow dropped
time_checked_sub_no_borrow(self, rhs) ==
    IF ~is_valid(self) \/ ~is_valid(rhs) THEN None
    ELSE LET fr == overflowing_sub(self.fraction, rhs.fraction)
             se == i32_checked_sub(self.seconds, rhs.seconds)
         IN  IF se.tag = "Some"
             THEN IF se.val < 0 THEN None ELSE Some(time_new(se.val, fr[1]))
             ELSE None

time_checked_sub(self, rhs) ==
    IF ~is_valid(self) \/ ~is_valid(rhs) THEN None
    ELSE LET fr == overflowing_sub(self.fraction, rhs.fraction)
             se == and_then_sub(i32_checked_sub(self.seconds, rhs.seconds),
                                IF fr[2] THEN 1 ELSE 0)
         IN  IF se.tag = "Some"
             THEN IF se.val < 0 THEN None ELSE Some(time_new(se.val, fr[1]))
             ELSE None

\* i32::checked_mul
i32_checked_mul(x, y) == IF InI32(x * y) THEN Some(x * y) ELSE None

\* u64 to i32: extra_seconds.try_into().ok()
u64_try_into_i32(x) == IF x <= MaxI32 THEN Some(x) ELSE None

\* Time::checked_mul with the seconds carried out of the fraction dropped; in
\* checked_mul and checked_div an overflow of an intermediate step panics when
\* the build checks it and wraps when it does not
time_checked_mul_no_extra(self, rhs, checks) ==
    IF ~is_valid(self) \/ rhs < 0 THEN None
    ELSE LET product == self.fraction * rhs
             total_fraction == WrapU64(product)
             fraction == WrapU32(total_fraction % LowMod)
             seconds == i32_checked_mul(self.seconds, rhs)
         IN  IF ~InU64(product) /\ checks THEN Panic
             ELSE IF seconds.tag = "Some"
                  THEN Some(time_new(seconds.val, fraction))
                  ELSE None

time_checked_mul(self, rhs, checks) ==
    IF ~is_valid(self) \/ rhs < 0 THEN None
    ELSE LET product == self.fraction * rhs
             total_fraction == WrapU64(product)
             extra_seconds == total_fraction \div LowMod
             fraction == WrapU32(total_fraction % LowMod)
             es == u64_try_into_i32(extra_seconds)
             seconds == IF es.tag = "Some"
                        THEN and_then_add(i32_checked_mul(self.seconds, rhs),
                                          es.val)
                        ELSE None
         IN  IF ~InU64(product) /\ checks THEN Panic
             ELSE IF seconds.tag = "Some"
                  THEN Some(time_new(seconds.val, fraction))
                  ELSE None

\* Time::checked_div with the validity test of self left out
time_checked_div_unvalidated(self, rhs, checks) ==
    IF rhs <= 0 THEN None
    ELSE LET seconds == self.seconds \div rhs
             scaled == seconds * rhs
             carry == WrapU64(self.seconds - WrapU64(scaled))
             spread == carry * LowMod
             extra_fraction == WrapU64(spread) \div rhs
             sum == (self.fraction \div rhs) + WrapU32(extra_fraction)
             overflowed == \/ ~InU64(scaled)
                           \/ self.seconds < WrapU64(scaled)
                           \/ ~InU64(spread)
                           \/ ~InU32(sum)
         IN  IF overflowed /\ checks THEN Panic
             ELSE Some(time_new(seconds, WrapU32(sum)))

time_checked_div(self, rhs, checks) ==
    IF ~is_valid(self) \/ rhs <= 0 THEN None
    ELSE LET seconds == self.seconds \div rhs
             scaled == seconds * rhs
             carry == WrapU64(self.seconds - WrapU64(scaled))
             spread == carry * LowMod
             extra_fraction == WrapU64(spread) \div rhs
             sum == (self.fraction \div rhs) + WrapU32(extra_fraction)
             overflowed == \/ ~InU64(scaled)
                           \/ self.seconds < WrapU64(scaled)
                           \/ ~InU64(spread)
                           \/ ~InU32(sum)
         IN  IF overflowed /\ checks THEN Panic
             ELSE Some(time_new(seconds, WrapU32(sum)))

\* impl Add, Sub, Mul, Div for Time
time_add(self, rhs) == expect(time_checked_add(self, rhs))

time_sub(self, rhs) == expect(time_checked_sub(self, rhs))

\* an abort inside the checked form is an abort of the operator
time_mul(self, rhs, checks) == expect(time_checked_mul(self, rhs, checks))

time_div(self, rhs, checks) == expect(time_checked_div(self, rhs, checks))

\* impl AddAssign, SubAssign, MulAssign, DivAssign for Time: the new *self
time_add_assign(self, rhs) == time_add(self, rhs)

time_sub_assign(self, rhs) == time_sub(self, rhs)

time_mul_assign(self, rhs, checks) == time_mul(self, rhs, checks)

time_div_assign(self, rhs, checks) == time_div(self, rhs, checks)

\* derived Ord: Ordering of the first field that differs, in declaration order
int_cmp(x, y) == IF x < y THEN "Less" ELSE IF x = y THEN "Equal" ELSE "Greater"

time_cmp(a, b) ==
    IF int_cmp(a.seconds, b.seconds) = "Equal"
    THEN int_cmp(a.fraction, b.fraction)
    ELSE int_cmp(a.seconds, b.seconds)

\* SequenceNumber ordered by its low half first
sn_cmp_low_first(a, b) ==
    IF int_cmp(a.low, b.low) = "Equal"
    THEN int_cmp(a.high, b.high)
    ELSE int_cmp(a.low, b.low)

sn_cmp(a, b) ==
    IF int_cmp(a.high, b.high) = "Equal"
    THEN int_cmp(a.low, b.low)
    ELSE int_cmp(a.high, b.high)

\* impl AddAssign, SubAssign for SequenceNumber: the new *self
add_assign(self, rhs) == add(self, rhs)

sub_assign(self, rhs) == sub(self, rhs)

\* nanoseconds in a second, at the modelled width: below 2^32 in the source,
\* below LowMod here
NanosPerSec == 1000

duration_new(secs, nanos) == [secs |-> secs, nanos |-> nanos]

OkVal(x) == [tag |-> "Ok", val |-> x]

\* impl TryFrom<std::time::Duration> for Time
time_try_from(v) ==
    IF v.secs > MaxI32 THEN Err("TryFromInt")
    ELSE LET shifted == WrapU64(v.nanos * LowMod)
         IN  OkVal(time_new(v.secs, WrapU32(shifted \div NanosPerSec)))

\* try_into with the product cut to u32 before the shift
time_try_into_narrow(self, checks) ==
    IF self.seconds < 0 THEN Err("TryFromInt")
    ELSE LET product == self.fraction * NanosPerSec
             nanos == WrapU32(WrapU32(product) \div LowMod)
             secs == self.seconds + nanos \div NanosPerSec
         IN  IF (~InU64(product) /\ checks) \/ ~InU64(secs) THEN Panic
             ELSE OkVal(duration_new(secs, nanos % NanosPerSec))

\* impl TryInto<std::time::Duration> for Time; Duration::new carries whole
\* seconds out of the nanoseconds
time_try_into(self, checks) ==
    IF self.seconds < 0 THEN Err("TryFromInt")
    ELSE LET product == self.fraction * NanosPerSec
             nanos == WrapU32(WrapU64(product) \div LowMod)
             secs == self.seconds + nanos \div NanosPerSec
         IN  IF (~InU64(product) /\ checks) \/ ~InU64(secs) THEN Panic
             ELSE OkVal(duration_new(secs, nanos % NanosPerSec))

\* ------------------------------------------------------------------ Locator

Zeros(n) == [i \in 1..n |-> 0]

V4(octets) == [v |-> "V4", octets |-> octets]

V6(octets) == [v |-> "V6", octets |-> octets]

\* SocketAddr::V6 with its flowinfo and scope_id
socket_addr_v6(ip, port, flowinfo, scope_id) ==
    [ip |-> ip, port |-> port, flowinfo |-> flowinfo, scope_id |-> scope_id]

\* SocketAddr::new(ip, port): a V6 address gets flowinfo 0 and scope_id 0
socket_addr_new(ip, port) ==
    IF ip.v = "V4" THEN [ip |-> ip, port |-> port]
    ELSE socket_addr_v6(ip, port, 0, 0)

\* Ipv4Addr::to_ipv6_mapped, ::ffff:a.b.c.d
to_ipv6_mapped(addr) == Zeros(10) \o <<255, 255>> \o addr

\* Ipv4Addr::to_ipv6_compatible, ::a.b.c.d
to_ipv6_compatible(addr) == Zeros(12) \o addr

locator_new(kind, socket_addr) ==
    [kind |-> CASE kind = "Invalid" -> -1
                [] kind = "Reserved" -> 0
                [] kind = "Udp" -> IF socket_addr.ip.v = "V4" THEN 1 ELSE 2,
     port |-> socket_addr.port,
     address |-> IF socket_addr.ip.v = "V4"
                 THEN to_ipv6_compatible(socket_addr.ip.octets)
                 ELSE socket_addr.ip.octets]

\* the u16 of a port
PortMod == 65536

\* Locator::socket_addr: [u8; 16] converts into an IpAddr::V6, the port is cut
\* to u16
locator_socket_addr(self) ==
    socket_addr_new(V6(self.address), self.port % PortMod)

\* ------------------------------------------------------------------ inputs

Near(x, lo, hi) == {y \in (x - Edge)..(x + Edge) : lo <= y /\ y <= hi}

HighSample == Near(MinI32, MinI32, MaxI32) \cup Near(0, MinI32, MaxI32)
                \cup Near(MaxI32, MinI32, MaxI32)

LowSample == Near(0, 0, LowMod - 1) \cup Near(LowMod - 1, 0, LowMod - 1)

SNSample == {new(h, l) : h \in HighSample, l \in LowSample}

I64Sample == Near(MinI64, MinI64, MaxI64) \cup Near(-LowMod, MinI64, MaxI64)
               \cup Near(0, MinI64, MaxI64) \cup Near(LowMod, MinI64, MaxI64)
               \cup Near(MaxI64, MinI64, MaxI64)

\* longest input vector drawn element by element
MaxLen == 3

\* the sequences over S of at most MaxLen elements
ShortVectors(S) == UNION {[1..n -> S] : n \in 0..MaxLen}

Stride(b, step, n) == [i \in 1..n |-> b + step * (i - 1)]

Reverse(v) == [i \in 1..Len(v) |-> v[Len(v) + 1 - i]]

\* long inputs: repeated, dense and evenly spread members, around the length
\* limit and the span limit, in ascending and in descending order
StrideLengths == {86, 99, 128, MaxLength - 1, MaxLength, MaxLength + 1}

StrideVectors(Bases) ==
    LET up == {Stride(b, step, n) :
                   b \in Bases, step \in 0..3, n \in StrideLengths}
    IN  up \cup {Reverse(v) : v \in up}

FragSample == {0, 1, 2, WordBits, WordBits + 1, WordBits + 2,
               2 * WordBits + 1, 2 * WordBits + 2, 3 * WordBits + 1,
               MaxLength, MaxLength + 1,
               LowMod - WordBits - 2, LowMod - 2, LowMod - 1}

FragVectors == ShortVectors(FragSample) \cup StrideVectors({0, 1, 2})

\* SequenceNumbers by their i64 value: the extremes, unknown = -2^32 and its
\* neighbour, -1 = (-1, max), the members around 0, and both sides of the
\* step from (0, max) to (1, 0)
SNValueSample == {MinI64, -LowMod, 1 - LowMod, -1, 0, 1, 2,
                  WordBits + 1, 2 * WordBits + 1, 2 * WordBits + 2,
                  MaxLength + 1, LowMod - 1, LowMod, MaxI64}

SNOf(v) == [i \in 1..Len(v) |-> from_i64(v[i])]

SNVectors == {SNOf(v) : v \in ShortVectors(SNValueSample)
                              \cup StrideVectors({-LowMod, 0, 1, 2,
                                                  LowMod - 100})}

\* Time values at the edges of (seconds: i32, fraction: u32)
TimeSample == {time_new(s, f) : s \in HighSample, f \in LowSample}

\* values away from the edges: small primes, a power of two, halves and thirds
MidSample == {3, 5, 7, 16, 17, 100, MaxI32 \div 2, MaxI32 \div 3}

ScalarSample == HighSample \cup MidSample

\* Time values for the scalar operations
TimeWide == {time_new(s, f) :
                 s \in HighSample \cup MidSample,
                 f \in LowSample \cup MidSample
                         \cup {LowMod \div 2, LowMod \div 3, LowMod - 16}}

\* std::time::Duration: as_secs() is a u64, subsec_nanos() every value
DurationSample == {duration_new(s, n) :
                       s \in Near(0, 0, WideMod - 1)
                               \cup Near(MaxI32, 0, WideMod - 1)
                               \cup Near(WideMod - 1, 0, WideMod - 1),
                       n \in 0..(NanosPerSec - 1)}

ByteSample == {0, 1, 127, 255}

Ipv4Sample == [1..4 -> ByteSample]

Ipv6Sample == {Zeros(16), Zeros(15) \o <<1>>, [i \in 1..16 |-> 255],
               [i \in 1..16 |-> 16 * i - 1],
               <<32, 1, 13, 184>> \o Zeros(11) \o <<1>>,
               <<254, 128>> \o Zeros(13) \o <<1>>}
                  \cup {to_ipv6_mapped(a) : a \in {<<127, 0, 0, 1>>, <<255, 255, 255, 255>>}}
                  \cup {to_ipv6_compatible(a) : a \in {<<127, 0, 0, 1>>, <<1, 0, 0, 0>>}}

PortSample == {0, 1, 7400, 65535}

SocketAddrSample == {socket_addr_new(ip, p) :
                         ip \in {V4(a) : a \in Ipv4Sample}
                                    \cup {V6(a) : a \in Ipv6Sample},
                         p \in PortSample}
                        \cup {socket_addr_v6(V6(a), p, 0, 3) :
                                  a \in {<<254, 128>> \o Zeros(13) \o <<1>>},
                                  p \in PortSample}

LocatorKind == {"Invalid", "Reserved", "Udp"}

\* ------------------------------------------------------------------ Guid

\* VendorId::default
vendor_id_default == <<207, 255>>

\* GuidPrefix::unknown, EntityId::unknown
guid_prefix_unknown == Zeros(12)

entity_id_unknown == Zeros(4)

\* the EntityId constructors, by name
entity_id(name) ==
    CASE name = "participant" -> <<0, 0, 1, 193>>
      [] name = "sedp_builtin_topic_writer" -> <<0, 0, 2, 194>>
      [] name = "sedp_builtin_topic_reader" -> <<0, 0, 2, 199>>
      [] name = "sedp_builtin_publications_writer" -> <<0, 0, 3, 194>>
      [] name = "sedp_builtin_publications_reader" -> <<0, 0, 3, 199>>
      [] name = "sedp_builtin_subscriptions_writer" -> <<0, 0, 4, 194>>
      [] name = "sedp_builtin_subscriptions_reader" -> <<0, 0, 4, 199>>
      [] name = "sedp_builtin_participant_writer" -> <<0, 1, 0, 194>>
      [] name = "sedp_builtin_participant_reader" -> <<0, 1, 0, 199>>
      [] name = "p2p_builtin_participant_message_writer" -> <<0, 2, 0, 194>>
      [] name = "p2p_builtin_participant_message_reader" -> <<0, 2, 0, 199>>

guid(prefix, entity) == [prefix |-> prefix, entity_id |-> entity]

\* Guid::unknown
guid_unknown == guid(guid_prefix_unknown, entity_id_unknown)

\* a transform that starts from the unknown prefix
set_entity_of_unknown_prefix(self, name) ==
    guid(guid_prefix_unknown, entity_id(name))

\* Guid::set_entity_of_<name>
set_entity_of(self, name) == guid(self.prefix, entity_id(name))

\* the i32 of a process id and of a participant index keeps its 32 bits:
\* byte k of x, k = 0 the least significant
ByteOf(x, k) == (x \div (256 ^ k)) % 256

le_bytes(x) == <<ByteOf(x, 0), ByteOf(x, 1), ByteOf(x, 2), ByteOf(x, 3)>>

\* the i32 whose bytes, least significant first, are b
from_le_bytes(b) ==
    b[1] + 256 * b[2] + 65536 * b[3]
        + 16777216 * (IF b[4] >= 128 THEN b[4] - 256 ELSE b[4])

\* i32::swap_bytes
swap_bytes(x) == from_le_bytes(Reverse(le_bytes(x)))

\* i32::to_be on a little-endian or a big-endian target
to_be(x, little_endian) == IF little_endian THEN swap_bytes(x) ELSE x

\* mem::transmute::<i32, [u8; 4]>: the bytes in the order of the target's memory
transmute(x, little_endian) ==
    IF little_endian THEN le_bytes(x) ELSE Reverse(le_bytes(x))

interface(is_loopback, ips) == [is_loopback |-> is_loopback, ips |-> ips]

not_loopback(i) == ~i.is_loopback

\* interfaces().iter().filter(|i| !i.is_loopback()).next()
\*     .and_then(|i| i.ips.iter().next().map(|ip| ip.ip()))
first_address(interfaces) ==
    LET up == SelectSeq(interfaces, not_loopback)
    IN  IF up = <<>> THEN None
        ELSE IF up[1].ips = <<>> THEN None
        ELSE Some(up[1].ips[1])

\* octets().iter().rev().take(2)
rev_take_2(octets) == <<octets[Len(octets)], octets[Len(octets) - 1]>>

\* GuidPrefix::automatic with the bytes of pid and id in the target's order
automatic_native_order(participant_id, interfaces, getpid, little_endian) ==
    LET found == first_address(interfaces)
        addr == IF found.tag = "Some" THEN rev_take_2(found.val.octets)
                ELSE <<1, 127>>
        pid == transmute(getpid, little_endian)
        id == transmute(participant_id, little_endian)
    IN  <<vendor_id_default[1], vendor_id_default[2], addr[2], addr[1]>>
            \o pid \o id

automatic(participant_id, interfaces, getpid, little_endian) ==
    LET found == first_address(interfaces)
        addr == IF found.tag = "Some" THEN rev_take_2(found.val.octets)
                ELSE <<1, 127>>
        pid == transmute(to_be(getpid, little_endian), little_endian)
        id == transmute(to_be(participant_id, little_endian), little_endian)
    IN  <<vendor_id_default[1], vendor_id_default[2], addr[2], addr[1]>>
            \o pid \o id

\* inputs: Guid values, participant indexes, process ids, interface lists
PrefixSample == {guid_prefix_unknown, [i \in 1..12 |-> 255],
                 <<207, 255, 1, 10, 0, 0, 18, 52, 0, 0, 0, 1>>}

Transforms == {"participant",
               "sedp_builtin_topic_writer", "sedp_builtin_topic_reader",
               "sedp_builtin_publications_writer",
               "sedp_builtin_publications_reader",
               "sedp_builtin_subscriptions_writer",
               "sedp_builtin_subscriptions_reader",
               "sedp_builtin_participant_writer",
               "sedp_builtin_participant_reader",
               "p2p_builtin_participant_message_writer",
               "p2p_builtin_participant_message_reader"}

EntitySample == {entity_id_unknown, <<1, 2, 3, 4>>, [i \in 1..4 |-> 255],
                 entity_id("participant")}

GuidSample == {guid(p, e) : p \in PrefixSample, e \in EntitySample}

ParticipantIds == {-2147483647 - 1, -1, 0, 1, 305419896}

Pids == {1, 256, 16909060, 2147483647}

InterfaceLists ==
    LET lo == interface(TRUE, <<V4(<<127, 0, 0, 1>>)>>)
        eth == interface(FALSE, <<V4(<<192, 168, 1, 10>>),
                                  V6(<<254, 128>> \o Zeros(12) \o <<171, 205>>)>>)
        wlan == interface(FALSE, <<V6(<<254, 128>> \o Zeros(12) \o <<171, 205>>),
                                   V4(<<10, 0, 127, 1>>)>>)
        vpn == interface(FALSE, <<V4(<<10, 0, 127, 1>>)>>)
        down == interface(FALSE, <<>>)
    IN  {<<>>, <<lo>>, <<lo, eth>>, <<wlan, lo>>, <<down, eth>>, <<lo, vpn, eth>>}

\* ------------------------------------------------------------------ state

Init ==
    /\ pc = "idle"
    /\ op = "none"
    /\ args = <<>>
    /\ ret = Null
    /\ prev = Null
    /\ overflow_checks \in BOOLEAN

\* the return of a call made from the idle state
Call(name, a, r) ==
    /\ pc' = "returned"
    /\ op' = name
    /\ args' = a
    /\ ret' = r
    /\ UNCHANGED <<prev, overflow_checks>>

\* a second call, made on the result of the first
Chain(name, a, r) ==
    /\ pc = "returned"
    /\ prev = Null
    /\ pc' = "returned"
    /\ prev' = [op |-> op, args |-> args, ret |-> ret]
    /\ op' = name
    /\ args' = a
    /\ ret' = r
    /\ UNCHANGED overflow_checks

CallCheckedAdd ==
    /\ pc = "idle"
    /\ \E a \in SNSample, b \in SNSample :
           Call("checked_add", <<a, b>>, checked_add(a, b))

CallCheckedSub ==
    /\ pc = "idle"
    /\ \E a \in SNSample, b \in SNSample :
           Call("checked_sub", <<a, b>>, checked_sub(a, b))

\* s.checked_sub(b) for the s of a.checked_add(b) = Some(s)
CallSubOfSum ==
    /\ op = "checked_add"
    /\ ret.tag = "Some"
    /\ Chain("checked_sub", <<ret.val, args[2]>>, checked_sub(ret.val, args[2]))

CallFrom ==
    /\ pc = "idle"
    /\ \E v \in I64Sample :
           Call("from", <<v>>, Val(from_i64(v)))

CallCommonInto ==
    /\ pc = "idle"
    /\ \E a \in SNSample :
           Call("common_into", <<a>>, Val(common_into(a)))

CallCoreInto ==
    /\ pc = "idle"
    /\ \E a \in SNSample :
           Call("core_into", <<a>>, core_into(a, overflow_checks))

\* SequenceNumber::from(x.into())
CallFromOfInto ==
    /\ op \in {"common_into", "core_into"}
    /\ ret.tag = "value"
    /\ Chain("from", <<ret.val>>, Val(from_i64(ret.val)))

\* SequenceNumber::from(v).into()
CallCommonIntoOfFrom ==
    /\ op = "from"
    /\ Chain("common_into", <<ret.val>>, Val(common_into(ret.val)))

CallCoreIntoOfFrom ==
    /\ op = "from"
    /\ Chain("core_into", <<ret.val>>, core_into(ret.val, overflow_checks))

NextSN ==
    \/ CallCheckedAdd
    \/ CallCheckedSub
    \/ CallSubOfSum
    \/ CallFrom
    \/ CallCommonInto
    \/ CallCoreInto
    \/ CallFromOfInto
    \/ CallCommonIntoOfFrom
    \/ CallCoreIntoOfFrom

SpecSN == Init /\ [][NextSN]_vars

CallSNTryFrom ==
    /\ pc = "idle"
    /\ \E v \in SNVectors :
           Call("sn_try_from", <<v>>, sn_try_from(v, overflow_checks))

CallFragTryFrom ==
    /\ pc = "idle"
    /\ \E v \in FragVectors :
           Call("frag_try_from", <<v>>, frag_try_from(v, overflow_checks))

NextSet ==
    \/ CallSNTryFrom
    \/ CallFragTryFrom

SpecSet == Init /\ [][NextSet]_vars

CallTimeCheckedAdd ==
    /\ pc = "idle"
    /\ \E a \in TimeSample, b \in TimeSample :
           Call("time_checked_add", <<a, b>>, time_checked_add(a, b))

CallTimeCheckedSub ==
    /\ pc = "idle"
    /\ \E a \in TimeSample, b \in TimeSample :
           Call("time_checked_sub", <<a, b>>, time_checked_sub(a, b))

CallTimeCheckedMul ==
    /\ pc = "idle"
    /\ \E t \in TimeWide, k \in ScalarSample :
           Call("time_checked_mul", <<t, k>>,
                time_checked_mul(t, k, overflow_checks))

CallTimeCheckedDiv ==
    /\ pc = "idle"
    /\ \E t \in TimeWide, k \in ScalarSample :
           Call("time_checked_div", <<t, k>>,
                time_checked_div(t, k, overflow_checks))

CallTimeTryFrom ==
    /\ pc = "idle"
    /\ \E v \in DurationSample :
           Call("time_try_from", <<v>>, time_try_from(v))

CallTimeTryInto ==
    /\ pc = "idle"
    /\ \E t \in TimeSample :
           Call("time_try_into", <<t>>, time_try_into(t, overflow_checks))

\* Time::try_from(v)?.try_into()
CallTryIntoOfTryFrom ==
    /\ op = "time_try_from"
    /\ ret.tag = "Ok"
    /\ Chain("time_try_into", <<ret.val>>,
             time_try_into(ret.val, overflow_checks))

NextTime ==
    \/ CallTimeCheckedAdd
    \/ CallTimeCheckedSub
    \/ CallTimeCheckedMul
    \/ CallTimeCheckedDiv
    \/ CallTimeTryFrom
    \/ CallTimeTryInto
    \/ CallTryIntoOfTryFrom

SpecTime == Init /\ [][NextTime]_vars

\* the operands of the operator calls: the corners of both fields
CornerHigh == {MinI32, -1, 0, 1, MaxI32}

CornerLow == {0, 1, LowMod - 1}

SNCorner == {new(h, l) : h \in CornerHigh, l \in CornerLow}

TimeCorner == {time_new(s, f) : s \in CornerHigh, f \in CornerLow}

ScalarCorner == CornerHigh \cup {2, 3}

\* the checked form of each operator, called on the operands of the operator
CallCheckedForm ==
    /\ pc = "idle"
    /\ \/ \E a \in SNCorner, b \in SNCorner :
              \/ Call("checked_add", <<a, b>>, checked_add(a, b))
              \/ Call("checked_sub", <<a, b>>, checked_sub(a, b))
       \/ \E a \in TimeCorner, b \in TimeCorner :
              \/ Call("time_checked_add", <<a, b>>, time_checked_add(a, b))
              \/ Call("time_checked_sub", <<a, b>>, time_checked_sub(a, b))
       \/ \E t \in TimeCorner, k \in ScalarCorner :
              \/ Call("time_checked_mul", <<t, k>>,
                      time_checked_mul(t, k, overflow_checks))
              \/ Call("time_checked_div", <<t, k>>,
                      time_checked_div(t, k, overflow_checks))

\* a + b, a - b, t * k, t / k on the operands of the checked call before it
CallOperator ==
    /\ pc = "returned"
    /\ prev = Null
    /\ LET a == args[1]
           b == args[2]
       IN  \/ op = "checked_add" /\ Chain("add", args, add(a, b))
           \/ op = "checked_sub" /\ Chain("sub", args, sub(a, b))
           \/ op = "time_checked_add" /\ Chain("time_add", args, time_add(a, b))
           \/ op = "time_checked_sub" /\ Chain("time_sub", args, time_sub(a, b))
           \/ op = "time_checked_mul"
                  /\ Chain("time_mul", args, time_mul(a, b, overflow_checks))
           \/ op = "time_checked_div"
                  /\ Chain("time_div", args, time_div(a, b, overflow_checks))

\* a += b, a -= b, t *= k, t /= k: the value is the new *self
CallOperatorAssign ==
    /\ pc = "returned"
    /\ prev = Null
    /\ LET a == args[1]
           b == args[2]
       IN  \/ op = "checked_add" /\ Chain("add_assign", args, add_assign(a, b))
           \/ op = "checked_sub" /\ Chain("sub_assign", args, sub_assign(a, b))
           \/ op = "time_checked_add"
                  /\ Chain("time_add_assign", args, time_add_assign(a, b))
           \/ op = "time_checked_sub"
                  /\ Chain("time_sub_assign", args, time_sub_assign(a, b))
           \/ op = "time_checked_mul"
                  /\ Chain("time_mul_assign", args,
                           time_mul_assign(a, b, overflow_checks))
           \/ op = "time_checked_div"
                  /\ Chain("time_div_assign", args,
                           time_div_assign(a, b, overflow_checks))

NextOps ==
    \/ CallCheckedForm
    \/ CallOperator
    \/ CallOperatorAssign

SpecOps == Init /\ [][NextOps]_vars

CallSNCmp ==
    /\ pc = "idle"
    /\ \E a \in SNSample, b \in SNSample :
           Call("sn_cmp", <<a, b>>, Val(sn_cmp(a, b)))

CallTimeCmp ==
    /\ pc = "idle"
    /\ \E a \in TimeSample, b \in TimeSample :
           Call("time_cmp", <<a, b>>, Val(time_cmp(a, b)))

\* b.cmp(a) after a.cmp(b)
CallCmpSwapped ==
    /\ pc = "returned"
    /\ prev = Null
    /\ \/ op = "sn_cmp"
              /\ Chain("sn_cmp", <<args[2], args[1]>>,
                       Val(sn_cmp(args[2], args[1])))
       \/ op = "time_cmp"
              /\ Chain("time_cmp", <<args[2], args[1]>>,
                       Val(time_cmp(args[2], args[1])))

NextOrd ==
    \/ CallSNCmp
    \/ CallTimeCmp
    \/ CallCmpSwapped

SpecOrd == Init /\ [][NextOrd]_vars

CallLocatorNew ==
    /\ pc = "idle"
    /\ \E k \in LocatorKind, s \in SocketAddrSample :
           Call("locator_new", <<k, s>>, Val(locator_new(k, s)))

\* Locator::new(k, s).socket_addr()
CallSocketAddrOfNew ==
    /\ op = "locator_new"
    /\ Chain("socket_addr", <<ret.val>>, Val(locator_socket_addr(ret.val)))

NextLocator ==
    \/ CallLocatorNew
    \/ CallSocketAddrOfNew

SpecLocator == Init /\ [][NextLocator]_vars

\* a further call in a sequence of calls; prev keeps the first call
Again(name, a, r) ==
    /\ pc = "returned"
    /\ pc' = "returned"
    /\ prev' = IF prev = Null THEN [op |-> op, args |-> args, ret |-> ret]
               ELSE prev
    /\ op' = name
    /\ args' = a
    /\ ret' = r
    /\ UNCHANGED overflow_checks

CallSetEntity ==
    /\ pc = "idle"
    /\ \E g \in GuidSample, name \in Transforms :
           Call("set_entity_of", <<g, name>>, Val(set_entity_of(g, name)))

\* g.set_entity_of_x().set_entity_of_y() and so on
CallSetEntityAgain ==
    /\ op = "set_entity_of"
    /\ \E name \in Transforms :
           Again("set_entity_of", <<ret.val, name>>,
                 Val(set_entity_of(ret.val, name)))

NextGuid ==
    \/ CallSetEntity
    \/ CallSetEntityAgain

SpecGuid == Init /\ [][NextGuid]_vars

\* the host of a call: its interfaces, the process id, the target's byte order
Hosts == {[interfaces |-> n, getpid |-> p, little_endian |-> e] :
              n \in InterfaceLists, p \in Pids, e \in BOOLEAN}

CallAutomatic ==
    /\ pc = "idle"
    /\ \E i \in ParticipantIds, h \in Hosts :
           Call("automatic", <<i, h>>,
                Val(automatic(i, h.interfaces, h.getpid, h.little_endian)))

\* a second prefix, of any participant of any process on any host
CallAutomaticElsewhere ==
    /\ op = "automatic"
    /\ \E i \in ParticipantIds, h \in Hosts :
           Chain("automatic", <<i, h>>,
                 Val(automatic(i, h.interfaces, h.getpid, h.little_endian)))

NextPrefix ==
    \/ CallAutomatic
    \/ CallAutomaticElsewhere

SpecPrefix == Init /\ [][NextPrefix]_vars

\* vectors with the distinct members of v: other orders, members repeated
Variants(v) ==
    IF v = <<>> THEN {}
    ELSE {w \in {Reverse(v), Tail(v) \o <<Head(v)>>,
                 Append(v, v[1]), Append(v, v[Len(v)]),
                 <<v[Len(v)]>> \o v,
                 Append(Append(v, v[Len(v)]), v[Len(v)])} :
              Len(w) <= MaxLength}

\* try_from on a second vector with the same distinct members
CallTryFromVariant ==
    /\ pc = "returned"
    /\ prev = Null
    /\ Len(args[1]) <= MaxLength
    /\ \E w \in Variants(args[1]) :
           \/ /\ op = "sn_try_from"
              /\ Chain("sn_try_from", <<w>>, sn_try_from(w, overflow_checks))
           \/ /\ op = "frag_try_from"
              /\ Chain("frag_try_from", <<w>>,
                       frag_try_from(w, overflow_checks))

NextPerm ==
    \/ CallSNTryFrom
    \/ CallFragTryFrom
    \/ CallTryFromVariant

SpecPerm == Init /\ [][NextPerm]_vars

\* the longest sequence of calls after the first
MaxSteps == 3

\* the operands of the calls of a sequence
TimeOperands == {time_zero, time_new(0, 1), time_new(1, 0),
                 time_new(0, LowMod - 1), time_infinite, time_invalid}

ScalarOperands == {-1, 0, 1, 2, 3, MaxI32}

\* the calls made before the last one
StepsMade == IF prev = Null THEN 0 ELSE prev.n

\* a call in a sequence of at most MaxSteps calls after the first; prev counts
\* the calls made before it
Step(name, a, r) ==
    /\ pc = "returned"
    /\ StepsMade < MaxSteps
    /\ pc' = "returned"
    /\ prev' = [tag |-> "steps", n |-> StepsMade + 1]
    /\ op' = name
    /\ args' = a
    /\ ret' = r
    /\ UNCHANGED overflow_checks

TimeCheckedOps == {"time_checked_add", "time_checked_sub",
                   "time_checked_mul", "time_checked_div"}

\* the first call of a sequence, on any Time values
CallTimeFirst ==
    /\ pc = "idle"
    /\ \/ \E a \in TimeCorner, b \in TimeCorner :
              \/ Call("time_checked_add", <<a, b>>, time_checked_add(a, b))
              \/ Call("time_checked_sub", <<a, b>>, time_checked_sub(a, b))
       \/ \E t \in TimeCorner, k \in ScalarCorner :
              \/ Call("time_checked_mul", <<t, k>>,
                      time_checked_mul(t, k, overflow_checks))
              \/ Call("time_checked_div", <<t, k>>,
                      time_checked_div(t, k, overflow_checks))

\* a checked operation on the Time the call before it returned
CallTimeNext ==
    /\ op \in TimeCheckedOps
    /\ ret.tag = "Some"
    /\ LET t == ret.val
       IN  \/ \E b \in TimeOperands :
                  \/ Step("time_checked_add", <<t, b>>, time_checked_add(t, b))
                  \/ Step("time_checked_add", <<b, t>>, time_checked_add(b, t))
                  \/ Step("time_checked_sub", <<t, b>>, time_checked_sub(t, b))
                  \/ Step("time_checked_sub", <<b, t>>, time_checked_sub(b, t))
           \/ \E k \in ScalarOperands :
                  \/ Step("time_checked_mul", <<t, k>>,
                          time_checked_mul(t, k, overflow_checks))
                  \/ Step("time_checked_div", <<t, k>>,
                          time_checked_div(t, k, overflow_checks))

NextTimeSeq ==
    \/ CallTimeFirst
    \/ CallTimeNext

SpecTimeSeq == Init /\ [][NextTimeSeq]_vars

\* ------------------------------------------------------ claims: range set

AfterTryFrom == pc = "returned" /\ op \in {"sn_try_from", "frag_try_from"}

\* the logical value of a member of the input: high * 2^32 + low, or the
\* fragment number itself
MemberValue(x) == IF op = "sn_try_from" THEN x.high * LowMod + x.low ELSE x

Members == {MemberValue(args[1][i]) : i \in 1..Len(args[1])}

MinMember == CHOOSE m \in Members : \A x \in Members : m <= x

MaxMember == CHOOSE m \in Members : \A x \in Members : x <= m

LengthInRange == 1 <= Len(args[1]) /\ Len(args[1]) <= 256

PassesValidation ==
    /\ LengthInRange
    /\ MinMember >= 1
    /\ MaxMember - MinMember <= 255

\* bit k of word j of bitmaps(), for offset i = 32 * j + k
BitIsSet(i) ==
    /\ i \div 32 + 1 <= Len(ret.bitmaps)
    /\ (i % 32) \in ret.bitmaps[i \div 32 + 1]

\* C1: for every input that passes the validation, of either counter kind and
\* however sparse, bit i (0 <= i < num_bits) of the returned set is set if and
\* only if base + i occurs in the input.
C1_BitIffMember ==
    (AfterTryFrom /\ PassesValidation /\ ret.tag = "Ok")
        => \A i \in 0..(ret.num_bits - 1) :
               BitIsSet(i) <=> (MemberValue(ret.base) + i) \in Members

\* C2: for every input that passes the validation the fold builds
\* floor(range / 32) + 1 words, a number in 1..8, so the conversion into the
\* selected shape succeeds and bitmaps() has that many words.
C2_WordCount ==
    (AfterTryFrom /\ PassesValidation)
        => /\ ret.tag = "Ok"
           /\ Len(ret.bitmaps) = (MaxMember - MinMember) \div 32 + 1
           /\ Len(ret.bitmaps) \in 1..8
           /\ Len(ret.bitmaps) = (ret.num_bits + 31) \div 32

\* C3: whenever a set is returned, base() is the minimum element of the input
\* and num_bits() is (max - min) + 1, a value in 1..256, whatever the order of
\* the input.
C3_BaseAndNumBits ==
    (AfterTryFrom /\ ret.tag = "Ok")
        => /\ MemberValue(ret.base) = MinMember
           /\ \E i \in 1..Len(args[1]) : args[1][i] = ret.base
           /\ ret.num_bits = (MaxMember - MinMember) + 1
           /\ ret.num_bits \in 1..256

\* an input in neither ascending nor descending order, spanning two words
C3_Witness ==
    /\ AfterTryFrom
    /\ op = "frag_try_from"
    /\ args[1] = <<34, 1, 2>>
    /\ ret = Ok(1, 34, <<{0, 1}, {1}>>)

\* C4: the constructor never aborts: for every input vector it returns a set
\* or one of the typed errors InvalidLength, InvalidRange, InvalidValue.
C4_NeverAborts ==
    AfterTryFrom
        => \/ ret.tag = "Ok"
           \/ /\ ret.tag = "Err"
              /\ ret.kind \in {"InvalidLength", "InvalidRange", "InvalidValue"}

\* C5: the constructor returns InvalidLength if and only if the input has 0
\* or more than 256 elements, duplicates counted, whatever the elements are;
\* the length is decided before any other check.
C5_InvalidLengthIff ==
    AfterTryFrom
        => ((ret.tag = "Err" /\ ret.kind = "InvalidLength")
               <=> (Len(args[1]) = 0 \/ Len(args[1]) > 256))

\* 257 times the unknown sentinel, on which every later step would fail
C5_Witness ==
    /\ AfterTryFrom
    /\ op = "sn_try_from"
    /\ Len(args[1]) = 257
    /\ \A i \in 1..257 : args[1][i] = unknown
    /\ ret = InvalidLength(257)

\* C6: for every input of 1..256 elements whose span max - min exceeds 255 the
\* constructor returns InvalidRange, for both counter kinds and whatever the
\* minimum is (below 1, with a negative high half, or unknown).
C6_WideSpanIsInvalidRange ==
    (AfterTryFrom /\ LengthInRange /\ MaxMember - MinMember > 255)
        => ret = Err("InvalidRange")

\* C7: for every input of 1..256 elements whose span is at most 255 and whose
\* minimum is below 1 the constructor returns InvalidValue: fragment number 0,
\* and the sequence numbers (0,0), unknown, and any with a negative high half.
C7_LowBaseIsInvalidValue ==
    (AfterTryFrom /\ LengthInRange /\ MaxMember - MinMember <= 255
        /\ MinMember < 1)
        => ret = Err("InvalidValue")

\* ------------------------------------------------- claims: SequenceNumber

\* the state after s.checked_sub(b), where a.checked_add(b) returned Some(s)
AfterSubOfSum ==
    /\ pc = "returned"
    /\ op = "checked_sub"
    /\ prev # Null
    /\ prev.op = "checked_add"

\* the low halves of a and b carried in a.checked_add(b)
LowCarried(a, b) == a.low + b.low >= LowMod

\* C8 as stated: for all a and b different from unknown, if a.checked_add(b)
\* returns Some(s) then s.checked_sub(b) returns Some(a).
C8_SubUndoesAdd ==
    (AfterSubOfSum /\ prev.args[1] # unknown /\ prev.args[2] # unknown)
        => ret = Some(prev.args[1])

\* C8 amended: for all a and b different from unknown with a.checked_add(b) =
\* Some(s), s.checked_sub(b) returns Some(a) exactly when a.high >= 0, s is not
\* unknown and a.high + carry fits the signed high half; it returns None
\* otherwise.  In particular it returns Some(a) whenever a.high >= 0 and
\* b.high >= 0.
C8_SubUndoesAddNonNegative ==
    (AfterSubOfSum /\ prev.args[1] # unknown /\ prev.args[2] # unknown)
        => LET a == prev.args[1]
               b == prev.args[2]
               s == prev.ret.val
               undone == /\ a.high >= 0
                         /\ s # unknown
                         /\ ~(a.high = MaxI32 /\ LowCarried(a, b))
           IN  /\ ret = IF undone THEN Some(a) ELSE None
               /\ (a.high >= 0 /\ b.high >= 0) => undone

\* a round trip through a low-half carry: (0, max) + (0, 2) = (1, 1), and back
C8_Witness ==
    /\ AfterSubOfSum
    /\ prev.args = <<new(0, LowMod - 1), new(0, 2)>>
    /\ prev.ret = Some(new(1, 1))
    /\ ret = Some(new(0, LowMod - 1))

\* C9: for every SequenceNumber x, unknown.checked_add(x), x.checked_add(unknown),
\* unknown.checked_sub(x) and x.checked_sub(unknown) all return None.
C9_UnknownYieldsNone ==
    (/\ pc = "returned"
     /\ op \in {"checked_add", "checked_sub"}
     /\ (args[1] = unknown \/ args[2] = unknown))
        => ret = None

\* x.checked_add(unknown) for x = (0, 1), which would otherwise add to (-1, 1)
C9_Witness ==
    /\ pc = "returned"
    /\ op = "checked_add"
    /\ args = <<new(0, 1), unknown>>
    /\ ret = None

\* C10: in both implementations the conversion of (high, low) to i64 yields
\* high * 2^32 + low, converting that back yields (high, low), and converting
\* any i64 v to a SequenceNumber and back yields v.
C10_I64RoundTrip ==
    (pc = "returned") =>
        /\ (op \in {"common_into", "core_into"} /\ prev = Null)
               => ret = Val(args[1].high * LowMod + args[1].low)
        /\ (op = "from" /\ prev # Null) => ret = Val(prev.args[1])
        /\ (op \in {"common_into", "core_into"} /\ prev # Null)
               => ret = Val(prev.args[1])

\* ------------------------------------------------------------ claims: Time

\* the fixed-point value seconds * 2^32 + fraction
Value(t) == t.seconds * LowMod + t.fraction

\* the Time whose fixed-point value is x
TimeOf(x) == time_new(x \div LowMod, x % LowMod)

\* 2^63 at the modelled width
ValueLimit == MaxI64 + 1

AfterTime(name) == pc = "returned" /\ op = name /\ prev = Null

\* C11: checked_add(a, b) returns None if and only if a or b has negative
\* seconds or value(a) + value(b) is 2^63 or more; in every other case it
\* returns the Time whose value is exactly that sum, a fraction overflow
\* carried as 1 into the seconds.
C11_CheckedAddExact ==
    AfterTime("time_checked_add")
        => LET a == args[1]
               b == args[2]
               fails == \/ a.seconds < 0
                        \/ b.seconds < 0
                        \/ Value(a) + Value(b) >= ValueLimit
           IN  ret = IF fails THEN None ELSE Some(TimeOf(Value(a) + Value(b)))

\* (1, max) + (0, 2) = (2, 1): the fraction overflows and carries
C11_Witness ==
    /\ AfterTime("time_checked_add")
    /\ args = <<time_new(1, LowMod - 1), time_new(0, 2)>>
    /\ ret = Some(time_new(2, 1))

\* C12: checked_sub(a, b) returns None if and only if a or b has negative
\* seconds or a < b in the Time ordering; in every other case it returns the
\* Time whose value is exactly value(a) - value(b), a fraction borrow taken
\* from the seconds.
C12_CheckedSubExact ==
    AfterTime("time_checked_sub")
        => LET a == args[1]
               b == args[2]
               fails == \/ a.seconds < 0
                        \/ b.seconds < 0
                        \/ time_cmp(a, b) = "Less"
           IN  ret = IF fails THEN None ELSE Some(TimeOf(Value(a) - Value(b)))

\* (2, 1) - (0, 2) = (1, max): the fraction borrows
C12_Witness ==
    /\ AfterTime("time_checked_sub")
    /\ args = <<time_new(2, 1), time_new(0, 2)>>
    /\ ret = Some(time_new(1, LowMod - 1))

\* C13: checked_mul(t, k) returns None if and only if t has negative seconds,
\* k is negative, or value(t) * k is 2^63 or more; in every other case it
\* returns the Time whose value is exactly value(t) * k, so t * 0 is zero and
\* t * 1 is t.
C13_CheckedMulExact ==
    AfterTime("time_checked_mul")
        => LET t == args[1]
               k == args[2]
               fails == \/ t.seconds < 0
                        \/ k < 0
                        \/ Value(t) * k >= ValueLimit
           IN  /\ ret = IF fails THEN None ELSE Some(TimeOf(Value(t) * k))
               /\ (~fails /\ k = 0) => ret = Some(time_zero)
               /\ (~fails /\ k = 1) => ret = Some(t)

\* (1, max) * 3 = (5, max - 2): two seconds carried out of the fraction
C13_Witness ==
    /\ AfterTime("time_checked_mul")
    /\ args = <<time_new(1, LowMod - 1), 3>>
    /\ ret = Some(time_new(5, LowMod - 3))

\* C14: checked_div(t, k) returns None if and only if t has negative seconds
\* or k <= 0; for every valid t, infinite included, and every k >= 1 it
\* returns Some, and no intermediate step overflows its width or aborts, in
\* the build that checks overflow as in the one that does not.
C14_CheckedDivTotal ==
    AfterTime("time_checked_div")
        => LET t == args[1]
               k == args[2]
           IN  /\ ret = None <=> (t.seconds < 0 \/ k <= 0)
               /\ (t.seconds >= 0 /\ k >= 1) => ret.tag = "Some"

\* infinite / 2 in the build that checks overflow: the remainder 1 scales to
\* half the fraction range and the sum is the largest fraction
C14_Witness ==
    /\ AfterTime("time_checked_div")
    /\ overflow_checks
    /\ args = <<time_infinite, 2>>
    /\ ret = Some(time_new(MaxI32 \div 2, LowMod - 1))

\* C15: for every valid t and every k >= 1, checked_div(t, k) returns the Time
\* whose value is floor(value(t) / k): the remainder of the seconds is carried
\* exactly into the fraction.
C15_DivIsFloor ==
    (AfterTime("time_checked_div") /\ args[1].seconds >= 0 /\ args[2] >= 1)
        => ret = Some(TimeOf(Value(args[1]) \div args[2]))

\* C16: for every valid t, infinite.checked_add(t) and t.checked_add(infinite)
\* return None exactly when t is not (0, 0), and infinite itself when it is:
\* the overflow of the seconds alone decides.
C16_InfinitePlus ==
    AfterTime("time_checked_add")
        => \A i \in 1..2 :
               (args[i] = time_infinite /\ args[3 - i].seconds >= 0)
                   => ret = IF args[3 - i] = time_zero
                            THEN Some(time_infinite)
                            ELSE None

\* (0, 1) + infinite: the carry out of the fraction overflows the seconds
C16_Witness ==
    /\ AfterTime("time_checked_add")
    /\ args = <<time_new(0, 1), time_infinite>>
    /\ ret = None

\* C17: for 0 <= seconds <= 2^31 - 1 and 0 <= nanoseconds < 10^9, converting
\* the duration to Time succeeds, converting that back succeeds, the seconds
\* are the same and the nanoseconds n' satisfy nanoseconds - 1 <= n' <=
\* nanoseconds.
C17_DurationRoundTrip ==
    /\ (AfterTime("time_try_from") /\ args[1].secs <= MaxI32)
           => /\ ret.tag = "Ok"
              /\ ret.val.seconds = args[1].secs
    /\ (pc = "returned" /\ op = "time_try_into" /\ prev # Null)
           => /\ ret.tag = "Ok"
              /\ ret.val.secs = prev.args[1].secs
              /\ prev.args[1].nanos - 1 <= ret.val.nanos
              /\ ret.val.nanos <= prev.args[1].nanos

\* the longest duration that converts, back with one nanosecond lost
C17_Witness ==
    /\ pc = "returned"
    /\ op = "time_try_into"
    /\ prev # Null
    /\ prev.args[1] = duration_new(MaxI32, NanosPerSec - 1)
    /\ ret = OkVal(duration_new(MaxI32, NanosPerSec - 2))

\* -------------------------------------------------------- claims: operators

Operators == {"add", "sub", "add_assign", "sub_assign",
              "time_add", "time_sub", "time_mul", "time_div",
              "time_add_assign", "time_sub_assign",
              "time_mul_assign", "time_div_assign"}

\* C18: each unchecked operator of SequenceNumber (+, -, +=, -=) and of Time
\* (+, -, *, / and the assigning forms) returns exactly the value of the
\* checked operation on the same operands when that returned Some, and aborts
\* when it returned None.
C18_OperatorIsCheckedOrAbort ==
    (pc = "returned" /\ op \in Operators /\ prev # Null)
        => /\ args = prev.args
           /\ prev.ret.tag = "Some" => ret = Val(prev.ret.val)
           /\ prev.ret.tag = "None" => ret = Panic
           /\ ret.tag = "value" => prev.ret = Some(ret.val)

\* (0, 0) -= (0, 1): the checked form returned None, the operator aborts
C18_Witness ==
    /\ pc = "returned"
    /\ op = "sub_assign"
    /\ prev # Null
    /\ args = <<new(0, 0), new(0, 1)>>
    /\ prev.ret = None
    /\ ret = Panic

\* --------------------------------------------------------- claims: ordering

\* the first field (high, seconds) and the second (low, fraction) of a value
First(x) == IF op = "sn_cmp" THEN x.high ELSE x.seconds

Second(x) == IF op = "sn_cmp" THEN x.low ELSE x.fraction

LexLess(a, b) ==
    First(a) < First(b) \/ (First(a) = First(b) /\ Second(a) < Second(b))

\* C19: the ordering of SequenceNumber and of Time is the strict total
\* lexicographic order on (signed high or seconds, then unsigned low or
\* fraction): a < b if and only if a's first field is smaller, or the first
\* fields are equal and a's second is smaller; exactly one of <, =, > holds,
\* and b > a whenever a < b.
C19_LexicographicOrder ==
    (pc = "returned" /\ op \in {"sn_cmp", "time_cmp"})
        => LET a == args[1]
               b == args[2]
           IN  /\ ret.val = "Less" <=> LexLess(a, b)
               /\ ret.val = "Equal" <=> a = b
               /\ ret.val = "Greater" <=> LexLess(b, a)
               /\ Cardinality({r \in {"Less", "Equal", "Greater"} :
                                   ret.val = r}) = 1
               /\ prev # Null =>
                      /\ ret.val = "Less" <=> prev.ret.val = "Greater"
                      /\ ret.val = "Equal" <=> prev.ret.val = "Equal"

\* (-1, max) < (0, 0): the high half is signed and decides before the low half
C19_Witness ==
    /\ pc = "returned"
    /\ op = "sn_cmp"
    /\ prev = Null
    /\ args = <<new(-1, LowMod - 1), new(0, 0)>>
    /\ ret = Val("Less")

\* ---------------------------------------------------------- claims: Locator

AfterLocatorNew == pc = "returned" /\ op = "locator_new"

C21_SocketAddrRoundTrip ==
    (pc = "returned" /\ op = "socket_addr" /\ prev # Null)
        => ret = Val(prev.args[2])

\* ------------------------------------------------------------- claims: Guid

\* the entity id literal of each transform
Literal(name) ==
    CASE name = "participant" -> <<0, 0, 1, 193>>
      [] name \in {"sedp_builtin_topic_writer", "sedp_builtin_topic_reader"}
             -> <<0, 0, 2>>
      [] name \in {"sedp_builtin_publications_writer",
                   "sedp_builtin_publications_reader"} -> <<0, 0, 3>>
      [] name \in {"sedp_builtin_subscriptions_writer",
                   "sedp_builtin_subscriptions_reader"} -> <<0, 0, 4>>
      [] name \in {"sedp_builtin_participant_writer",
                   "sedp_builtin_participant_reader"} -> <<0, 1, 0>>
      [] name \in {"p2p_builtin_participant_message_writer",
                   "p2p_builtin_participant_message_reader"} -> <<0, 2, 0>>

Writers == {"sedp_builtin_topic_writer", "sedp_builtin_publications_writer",
            "sedp_builtin_subscriptions_writer",
            "sedp_builtin_participant_writer",
            "p2p_builtin_participant_message_writer"}

\* C2 for a writer, C7 for a reader, C1 for the participant
LiteralOf(name) ==
    IF name = "participant" THEN Literal(name)
    ELSE Append(Literal(name), IF name \in Writers THEN 194 ELSE 199)

\* the Guid the sequence of transforms started from
OriginalGuid == IF prev = Null THEN args[1] ELSE prev.args[1]

\* C22: for every Guid g and every set_entity_of_* transform, the result has
\* the 12-byte prefix of g and the entity id literal of the transform,
\* whatever entity id g had; the same holds after any sequence of transforms,
\* for the g the sequence started from.
C22_TransformKeepsPrefix ==
    (pc = "returned" /\ op = "set_entity_of")
        => /\ Len(ret.val.prefix) = 12
           /\ ret.val.prefix = OriginalGuid.prefix
           /\ ret.val.prefix = args[1].prefix
           /\ ret.val.entity_id = LiteralOf(args[2])

\* a sequence that started from a Guid with an entity id of its own and passed
\* through the participant id
C22_Witness ==
    /\ pc = "returned"
    /\ op = "set_entity_of"
    /\ prev # Null
    /\ prev.args[1] = guid(<<207, 255, 1, 10, 0, 0, 18, 52, 0, 0, 0, 1>>,
                           <<1, 2, 3, 4>>)
    /\ args[1].entity_id = <<0, 0, 1, 193>>
    /\ args[2] = "p2p_builtin_participant_message_reader"
    /\ ret.val = guid(<<207, 255, 1, 10, 0, 0, 18, 52, 0, 0, 0, 1>>,
                      <<0, 2, 0, 199>>)

\* byte k (0 the first) of the big-endian bytes of the i32 x
BigEndianByte(x, k) == (x \div (256 ^ (3 - k))) % 256

\* bytes 2-3: the last two octets of the first address of the first interface
\* that is not a loopback, in address order, or 127, 1 when there is none
HostSuffix(h) ==
    LET found == first_address(h.interfaces)
    IN  IF found.tag = "Some"
        THEN <<found.val.octets[Len(found.val.octets) - 1],
               found.val.octets[Len(found.val.octets)]>>
        ELSE <<127, 1>>

\* C23: GuidPrefix::automatic(i) returns 12 bytes: bytes 0-1 the default
\* vendor id CF FF, bytes 2-3 the two lowest bytes of the chosen interface
\* address in address order (the fallback pair when none is found), bytes 4-7
\* the process id big-endian, bytes 8-11 the index i big-endian; so two
\* prefixes are equal only if host suffix, process id and index are equal.
C23_PrefixLayout ==
    (pc = "returned" /\ op = "automatic")
        => LET i == args[1]
               h == args[2]
               p == ret.val
           IN  /\ Len(p) = 12
               /\ p[1] = 207 /\ p[2] = 255
               /\ <<p[3], p[4]>> = HostSuffix(h)
               /\ \A k \in 0..3 : p[5 + k] = BigEndianByte(h.getpid, k)
               /\ \A k \in 0..3 : p[9 + k] = BigEndianByte(i, k)
               /\ (prev # Null /\ ret = prev.ret)
                      => /\ HostSuffix(h) = HostSuffix(prev.args[2])
                         /\ h.getpid = prev.args[2].getpid
                         /\ i = prev.args[1]

\* the index of the repository's test on a little-endian host whose first
\* interface that is up has the address 192.168.1.10
C23_Witness ==
    /\ pc = "returned"
    /\ op = "automatic"
    /\ prev = Null
    /\ args[1] = 305419896
    /\ args[2].little_endian
    /\ args[2].getpid = 16909060
    /\ ret.val = <<207, 255, 1, 10, 1, 2, 3, 4, 18, 52, 86, 120>>

\* ------------------------------------- claims: SequenceNumber arithmetic

\* the logical value high * 2^32 + low
SNValue(x) == x.high * LowMod + x.low

\* C24: checked_add(a, b) returns None if and only if a or b is unknown or
\* value(a) + value(b) lies outside what a signed high and an unsigned low can
\* represent; in every other case, negative high halves whose low halves carry
\* included, it returns the SequenceNumber whose value is exactly that sum.
C24_CheckedAddExact ==
    (pc = "returned" /\ op = "checked_add")
        => LET a == args[1]
               b == args[2]
               sum == SNValue(a) + SNValue(b)
           IN  ret = IF a = unknown \/ b = unknown \/ ~InI64(sum) THEN None
                     ELSE Some(new(sum \div LowMod, sum % LowMod))

\* C25: checked_sub(a, b) returns Some(r) if and only if neither a nor b is
\* unknown and d = value(a) - value(b) satisfies 0 <= d <= 2^63 - 1; when it
\* returns Some(r), value(r) = d and r.high >= 0.
C25_CheckedSubExact ==
    (pc = "returned" /\ op = "checked_sub")
        => LET a == args[1]
               b == args[2]
               d == SNValue(a) - SNValue(b)
           IN  /\ ret.tag = "Some"
                      <=> (a # unknown /\ b # unknown /\ 0 <= d /\ d <= MaxI64)
               /\ ret.tag = "Some" => (SNValue(ret.val) = d /\ ret.val.high >= 0)

\* ------------------------------------------------ claims: range set members

DistinctMembers(v) == {v[i] : i \in 1..Len(v)}

\* C26: the outcome of the range-set constructor depends only on the set of
\* distinct members: two vectors of 1..256 elements with the same distinct
\* values, in any order and with any multiplicities, produce the same error or
\* sets with the same base, num_bits and bitmaps.
C26_OutcomeOfDistinctMembers ==
    (/\ AfterTryFrom
     /\ prev # Null
     /\ DistinctMembers(args[1]) = DistinctMembers(prev.args[1])
     /\ Len(args[1]) \in 1..256
     /\ Len(prev.args[1]) \in 1..256)
        => ret = prev.ret

\* --------------------------------------------------- claims: Time validity

\* C27: validity is closed under the checked Time operations: after any
\* sequence of checked_add, checked_sub, checked_mul and checked_div calls
\* that each return Some, starting from any Time values, every returned Time
\* has seconds >= 0; no call returns a Time with negative seconds, and never
\* the invalid sentinel (-1, 0xffffffff).
C27_ValidityClosed ==
    (pc = "returned" /\ op \in TimeCheckedOps /\ ret.tag = "Some")
        => /\ is_valid(ret.val)
           /\ ret.val.seconds \in 0..MaxI32
           /\ ret.val.fraction \in 0..(LowMod - 1)
           /\ ret.val # time_invalid

\* (0, 1) + (0, max) = (1, 0), a third of it, and (0, 1) less: the last call
\* of a sequence of three
C27_Witness ==
    /\ pc = "returned"
    /\ prev # Null
    /\ prev.n = 2
    /\ op = "time_checked_sub"
    /\ args = <<time_new(0, LowMod \div 3), time_new(0, 1)>>
    /\ ret = Some(time_new(0, LowMod \div 3 - 1))

=============================================================================
